---------------------------- MODULE Spec2Model ----------------------------
(***************************************************************************)
(* Mono3D: raster image -> contours -> nested polygons -> extruded mesh.   *)
(*                                                                         *)
(* Number representation (exact rational arithmetic, no rounding):         *)
(*   - grid coordinates are half-integers in the code; the model stores    *)
(*     them doubled (X = 2x), so every marching-squares point is an        *)
(*     integer pair;                                                       *)
(*   - world coordinates are stored multiplied by res (the code's          *)
(*     (x - res/2) * (WORLD_SIZE / res) becomes (X - res) * WORLD_SIZE/2); *)
(*   - scalar field values are numerators over ValDen;                     *)
(*   - distances are compared through their squares, as <<num, den>>;      *)
(*   - tolerances are rationals <<num, den>>.                              *)
(* Float32/float64 rounding of the code is not modelled.                   *)
(***************************************************************************)
EXTENDS Integers, Sequences, FiniteSets, TLC

(***************************************************************************)
(* Program constants                                                       *)
(***************************************************************************)
WORLD_SIZE == 100

\* BoxGeometry: 6 faces x 2 triangles x 3 vertices once made non-indexed
BoxVertexCount == 36

(***************************************************************************)
(* Generic helpers                                                         *)
(***************************************************************************)
Abs(n) == IF n < 0 THEN -n ELSE n

Max2(a, b) == IF a > b THEN a ELSE b

Min2(a, b) == IF a < b THEN a ELSE b

Reverse(s) == [i \in 1..Len(s) |-> s[Len(s) + 1 - i]]

\* a / b > c / d for b, d > 0
RatGT(a, c) == a[1] * c[2] > c[1] * a[2]

(***************************************************************************)
(* distToSegment, squared: <<num, den>> with den > 0.                      *)
(* t = dot / l2 clamped to [0,1]; for 0 < t < 1 the squared distance of p  *)
(* to v + t (w - v) is (|p-v|^2 * l2 - dot^2) / l2.                        *)
(***************************************************************************)
DistSq(p, q) == (p[1] - q[1]) * (p[1] - q[1]) + (p[2] - q[2]) * (p[2] - q[2])

\* mutant: the projection parameter t is not clamped to [0,1] (distance to
\* the infinite line through v and w)
distToLineSq(p, v, w) ==
    LET l2  == DistSq(v, w)
        dot == (p[1] - v[1]) * (w[1] - v[1]) + (p[2] - v[2]) * (w[2] - v[2])
    IN  IF l2 = 0 THEN <<DistSq(p, v), 1>>
        ELSE <<DistSq(p, v) * l2 - dot * dot, l2>>

distToSegmentSq(p, v, w) ==
    LET l2  == DistSq(v, w)
        dot == (p[1] - v[1]) * (w[1] - v[1]) + (p[2] - v[2]) * (w[2] - v[2])
    IN  IF l2 = 0 THEN <<DistSq(p, v), 1>>
        ELSE IF dot <= 0 THEN <<DistSq(p, v), 1>>
        ELSE IF dot >= l2 THEN <<DistSq(p, w), 1>>
        ELSE <<DistSq(p, v) * l2 - dot * dot, l2>>

(***************************************************************************)
(* simplifyPath: recursive Douglas-Peucker.  tol = <<n, d>>, d > 0.        *)
(***************************************************************************)
\* the loop of lines 37-43: first index (0-based) with the largest distance
RECURSIVE FarthestFrom(_, _, _, _)
FarthestFrom(points, i, index, maxDist) ==
    IF i >= Len(points) - 1 THEN [index |-> index, maxDist |-> maxDist]
    ELSE LET d == distToSegmentSq(points[i + 1], points[1], points[Len(points)])
         IN  IF RatGT(d, maxDist)
             THEN FarthestFrom(points, i + 1, i, d)
             ELSE FarthestFrom(points, i + 1, index, maxDist)

\* maxDist > tolerance, on squares
ExceedsTolerance(maxDist, tol) ==
    maxDist[1] * tol[2] * tol[2] > tol[1] * tol[1] * maxDist[2]

\* mutant: a tolerance of 0 is taken for "not set" and replaced by 1
\* (tolerance || 1)
RECURSIVE simplifyPathFalsyTolerance(_, _)
simplifyPathFalsyTolerance(points, tol) ==
    IF Len(points) <= 2 THEN points
    ELSE LET t   == IF tol[1] = 0 THEN <<1, 1>> ELSE tol
             far == FarthestFrom(points, 1, 0, <<0, 1>>)
         IN  IF ExceedsTolerance(far.maxDist, t)
             THEN LET left  == simplifyPathFalsyTolerance(SubSeq(points, 1, far.index + 1), t)
                      right == simplifyPathFalsyTolerance(SubSeq(points, far.index + 1, Len(points)), t)
                  IN  SubSeq(left, 1, Len(left) - 1) \o right
             ELSE <<points[1], points[Len(points)]>>

\* mutant: the right half starts after the split point (slice(index + 1)),
\* so the split point is lost
RECURSIVE simplifyPathLosesSplit(_, _)
simplifyPathLosesSplit(points, tol) ==
    IF Len(points) <= 2 THEN points
    ELSE LET far == FarthestFrom(points, 1, 0, <<0, 1>>)
         IN  IF ExceedsTolerance(far.maxDist, tol)
             THEN LET left  == simplifyPathLosesSplit(SubSeq(points, 1, far.index + 1), tol)
                      right == simplifyPathLosesSplit(SubSeq(points, far.index + 2, Len(points)), tol)
                  IN  SubSeq(left, 1, Len(left) - 1) \o right
             ELSE <<points[1], points[Len(points)]>>

RECURSIVE simplifyPath(_, _)
simplifyPath(points, tolerance) ==
    IF Len(points) <= 2 THEN points
    ELSE LET far == FarthestFrom(points, 1, 0, <<0, 1>>)
         IN  IF ExceedsTolerance(far.maxDist, tolerance)
             THEN LET left  == simplifyPath(SubSeq(points, 1, far.index + 1), tolerance)
                      right == simplifyPath(SubSeq(points, far.index + 1, Len(points)), tolerance)
                  IN  SubSeq(left, 1, Len(left) - 1) \o right
             ELSE <<points[1], points[Len(points)]>>

(***************************************************************************)
(* isPointInPolygon: ray-casting parity.  The division by (yj - yi) is     *)
(* cleared by multiplying through with its sign.                           *)
(***************************************************************************)
EdgeCrosses(point, pi, pj) ==
    /\ (pi[2] > point[2]) # (pj[2] > point[2])
    /\ LET dy == pj[2] - pi[2]
           lhs == (point[1] - pi[1]) * dy
           rhs == (pj[1] - pi[1]) * (point[2] - pi[2])
       IN  IF dy > 0 THEN lhs < rhs ELSE lhs > rhs

isPointInPolygon(point, polygon) ==
    LET n == Len(polygon)
        crossing == {i \in 1..n :
                       EdgeCrosses(point, polygon[i], polygon[IF i = 1 THEN n ELSE i - 1])}
    IN  Cardinality(crossing) % 2 = 1


(***************************************************************************)
(* traceContours, lines 87-96: the scalar field.  pixelData is the flat    *)
(* R,G,B,A byte buffer (1-based here); a grid value is a numerator over    *)
(* ValDen = 1000 * 255 * 255.                                              *)
(***************************************************************************)
ValDen == 1000 * 255 * 255

Clamp01(v) == Max2(0, Min2(ValDen, v))

\* mutant: the luminance is not multiplied by alpha
GridValueIgnoringAlpha(pixelData, i, settings) ==
    LET idx  == i * 4
        lum  == 299 * pixelData[idx + 1] + 587 * pixelData[idx + 2] + 114 * pixelData[idx + 3]
        val0 == lum * 255
        val1 == IF settings.invert THEN ValDen - val0 ELSE val0
    IN  IF settings.contrast > 1
        THEN Clamp01((val1 - ValDen \div 2) * settings.contrast + ValDen \div 2)
        ELSE val1

GridValue(pixelData, i, settings) ==
    LET idx  == i * 4
        lum  == 299 * pixelData[idx + 1] + 587 * pixelData[idx + 2] + 114 * pixelData[idx + 3]
        val0 == lum * pixelData[idx + 4]
        val1 == IF settings.invert THEN ValDen - val0 ELSE val0
    IN  IF settings.contrast > 1
        THEN Clamp01((val1 - ValDen \div 2) * settings.contrast + ValDen \div 2)
        ELSE val1

BuildGrid(pixelData, res, settings) ==
    [k \in 1..(res * res) |-> GridValue(pixelData, k - 1, settings)]

\* grid[i] > maskThreshold ? 1 : 0, maskThreshold in hundredths
AboveThreshold(grid, i, settings) ==
    IF grid[i + 1] > settings.maskThreshold * (ValDen \div 100) THEN 1 ELSE 0

(***************************************************************************)
(* traceContours, lines 98-125: marching squares.  An edge is              *)
(* <<x1, y1, x2, y2>> in doubled coordinates.                              *)
(***************************************************************************)
\* mutant: the bottom-left corner is left out of the case code
CaseIdxWithoutV3(grid, res, x, y, settings) ==
    LET v0 == AboveThreshold(grid, y * res + x, settings)
        v1 == AboveThreshold(grid, y * res + (x + 1), settings)
        v2 == AboveThreshold(grid, (y + 1) * res + (x + 1), settings)
    IN  8 * v0 + 4 * v1 + 2 * v2

CaseIdx(grid, res, x, y, settings) ==
    LET v0 == AboveThreshold(grid, y * res + x, settings)
        v1 == AboveThreshold(grid, y * res + (x + 1), settings)
        v2 == AboveThreshold(grid, (y + 1) * res + (x + 1), settings)
        v3 == AboveThreshold(grid, (y + 1) * res + x, settings)
    IN  8 * v0 + 4 * v1 + 2 * v2 + v3

Seg(x, y, a, b, c, d) == <<2 * x + a, 2 * y + b, 2 * x + c, 2 * y + d>>

\* mutant: the saddle codes emit only their first segment
CellEdgesOneSegmentPerCell(caseIdx, x, y) ==
    CASE caseIdx \in {1, 14} -> <<Seg(x, y, 0, 1, 1, 2)>>
      [] caseIdx \in {2, 13} -> <<Seg(x, y, 1, 2, 2, 1)>>
      [] caseIdx \in {3, 12} -> <<Seg(x, y, 0, 1, 2, 1)>>
      [] caseIdx \in {4, 11} -> <<Seg(x, y, 1, 0, 2, 1)>>
      [] caseIdx = 5         -> <<Seg(x, y, 0, 1, 1, 0)>>
      [] caseIdx \in {6, 9}  -> <<Seg(x, y, 1, 0, 1, 2)>>
      [] caseIdx \in {7, 8}  -> <<Seg(x, y, 0, 1, 1, 0)>>
      [] caseIdx = 10        -> <<Seg(x, y, 1, 0, 2, 1)>>
      [] OTHER               -> <<>>

CellEdges(caseIdx, x, y) ==
    CASE caseIdx \in {1, 14} -> <<Seg(x, y, 0, 1, 1, 2)>>
      [] caseIdx \in {2, 13} -> <<Seg(x, y, 1, 2, 2, 1)>>
      [] caseIdx \in {3, 12} -> <<Seg(x, y, 0, 1, 2, 1)>>
      [] caseIdx \in {4, 11} -> <<Seg(x, y, 1, 0, 2, 1)>>
      [] caseIdx = 5         -> <<Seg(x, y, 0, 1, 1, 0), Seg(x, y, 1, 2, 2, 1)>>
      [] caseIdx \in {6, 9}  -> <<Seg(x, y, 1, 0, 1, 2)>>
      [] caseIdx \in {7, 8}  -> <<Seg(x, y, 0, 1, 1, 0)>>
      [] caseIdx = 10        -> <<Seg(x, y, 1, 0, 2, 1), Seg(x, y, 0, 1, 1, 2)>>
      [] OTHER               -> <<>>

\* cells in the order of the two nested loops: c = y * (res - 1) + x
RECURSIVE MarchingSquares(_, _, _, _)
MarchingSquares(grid, res, settings, c) ==
    IF c >= (res - 1) * (res - 1) THEN <<>>
    ELSE LET x == c % (res - 1)
             y == c \div (res - 1)
         IN  CellEdges(CaseIdx(grid, res, x, y, settings), x, y)
                 \o MarchingSquares(grid, res, settings, c + 1)

(***************************************************************************)
(* traceContours, lines 127-175: loop stitching.                           *)
(***************************************************************************)
\* toFixed(2) of a half-integer: the coordinate in hundredths
getCoordKey(x, y) == <<50 * x, 50 * y>>

\* pointMap.get(key): edge indices in insertion order (k1 before k2)
RECURSIVE PointMapGet(_, _, _)
PointMapGet(edges, key, i) ==
    IF i > Len(edges) THEN <<>>
    ELSE LET e  == edges[i]
             a  == IF getCoordKey(e[1], e[2]) = key THEN <<i>> ELSE <<>>
             b  == IF getCoordKey(e[3], e[4]) = key THEN <<i>> ELSE <<>>
         IN  a \o b \o PointMapGet(edges, key, i + 1)

\* Math.abs(e[0] - nextX) < 0.01 && Math.abs(e[1] - nextY) < 0.01
NearEnd(e, next) == Abs(e[1] - next[1]) * 50 < 1 /\ Abs(e[2] - next[2]) * 50 < 1

\* the while (found) loop of lines 153-173
RECURSIVE Walk(_, _, _, _, _)
Walk(edges, usedEdges, currentLoop, segs, next) ==
    LET candidates == PointMapGet(edges, getCoordKey(next[1], next[2]), 1)
        free == SelectSeq(candidates, LAMBDA idx : ~usedEdges[idx])
    IN  IF free = <<>>
        THEN [usedEdges |-> usedEdges, points |-> currentLoop, segs |-> segs, last |-> next]
        ELSE LET idx == Head(free)
                 e   == edges[idx]
                 u   == [usedEdges EXCEPT ![idx] = TRUE]
             IN  IF NearEnd(e, next)
                 THEN Walk(edges, u, Append(currentLoop, <<e[1], e[2]>>),
                           Append(segs, idx), <<e[3], e[4]>>)
                 ELSE Walk(edges, u, Append(currentLoop, <<e[3], e[4]>>),
                           Append(segs, idx), <<e[1], e[2]>>)

\* the for loop of lines 142-175; every walk is recorded (points, the edges
\* it consumed in order, the endpoint it stopped at), also those line 174 drops
RECURSIVE StitchWalks(_, _, _)
StitchWalks(edges, usedEdges, i) ==
    IF i > Len(edges) THEN <<>>
    ELSE IF usedEdges[i] THEN StitchWalks(edges, usedEdges, i + 1)
    ELSE LET edge == edges[i]
             w == Walk(edges, [usedEdges EXCEPT ![i] = TRUE],
                       <<<<edge[1], edge[2]>>>>, <<i>>, <<edge[3], edge[4]>>)
         IN  <<[points |-> w.points, segs |-> w.segs, last |-> w.last]>>
                 \o StitchWalks(edges, w.usedEdges, i + 1)

Stitch(edges) == StitchWalks(edges, [i \in 1..Len(edges) |-> FALSE], 1)

\* line 174: if (currentLoop.length > 2) loops.push(currentLoop)
KeptLoops(walks) ==
    LET kept == SelectSeq(walks, LAMBDA w : Len(w.points) > 2)
    IN  [k \in 1..Len(kept) |-> kept[k].points]

(***************************************************************************)
(* traceContours, lines 177-203: simplify, normalize to world scale, area. *)
(***************************************************************************)
\* simplification || 0.1
EffectiveTolerance(simplification) ==
    IF simplification[1] = 0 THEN <<1, 10>> ELSE simplification

\* the loops are in doubled coordinates, so the tolerance is doubled too
GridTolerance(simplification) ==
    LET t == EffectiveTolerance(simplification) IN <<2 * t[1], t[2]>>

\* ((p.x - res/2) * scale, (res/2 - p.y) * scale), times res
ToWorld(p, res) ==
    <<(p[1] - res) * (WORLD_SIZE \div 2), (res - p[2]) * (WORLD_SIZE \div 2)>>

\* sum of p1.x * p2.y - p2.x * p1.y over consecutive points, cyclically
RECURSIVE ShoelaceFrom(_, _)
ShoelaceFrom(points, i) ==
    IF i > Len(points) THEN 0
    ELSE LET p1 == points[i]
             p2 == points[(i % Len(points)) + 1]
         IN  (p1[1] * p2[2] - p2[1] * p1[2]) + ShoelaceFrom(points, i + 1)

Shoelace(points) == ShoelaceFrom(points, 1)

\* THREE.ShapeUtils.isClockWise: signed area < 0
isClockWise(points) == Shoelace(points) < 0

MakeContourInfo(l, res, simplification) ==
    LET simplified == simplifyPath(l, GridTolerance(simplification))
        points == [k \in 1..Len(simplified) |-> ToWorld(simplified[k], res)]
    IN  [shape |-> 0, points |-> points, area |-> Abs(Shoelace(points)),
         depth |-> 0, parent |-> 0, isHole |-> FALSE]

MakeContourInfos(loops, res, simplification) ==
    [k \in 1..Len(loops) |-> MakeContourInfo(loops[k], res, simplification)]

(***************************************************************************)
(* line 206: contourInfos.sort((a, b) => b.area - a.area), a stable sort   *)
(***************************************************************************)
\* mutant: the order is ascending by area
RECURSIVE InsertByAreaAscending(_, _)
InsertByAreaAscending(sorted, c) ==
    IF sorted = <<>> THEN <<c>>
    ELSE IF Head(sorted).area <= c.area
         THEN <<Head(sorted)>> \o InsertByAreaAscending(Tail(sorted), c)
         ELSE <<c>> \o sorted

RECURSIVE InsertByArea(_, _)
InsertByArea(sorted, c) ==
    IF sorted = <<>> THEN <<c>>
    ELSE IF Head(sorted).area >= c.area
         THEN <<Head(sorted)>> \o InsertByArea(Tail(sorted), c)
         ELSE <<c>> \o sorted

RECURSIVE SortByAreaFrom(_, _, _)
SortByAreaFrom(infos, sorted, i) ==
    IF i > Len(infos) THEN sorted
    ELSE SortByAreaFrom(infos, InsertByArea(sorted, infos[i]), i + 1)

SortByArea(infos) == SortByAreaFrom(infos, <<>>, 1)

(***************************************************************************)
(* lines 208-231: hierarchy.  parent is an index into contourInfos, 0 for  *)
(* null.                                                                   *)
(***************************************************************************)
\* mutant: the parent is the largest containing loop, not the smallest
RECURSIVE FindLargestParent(_, _, _, _, _)
FindLargestParent(infos, i, j, parent, minParentArea) ==
    IF j >= i THEN parent
    ELSE IF parent = 0 /\ isPointInPolygon(infos[i].points[1], infos[j].points)
         THEN FindLargestParent(infos, i, j + 1, j, infos[j].area)
         ELSE FindLargestParent(infos, i, j + 1, parent, minParentArea)

\* the inner loop of lines 216-222; minParentArea = -1 stands for Infinity
RECURSIVE FindParent(_, _, _, _, _)
FindParent(infos, i, j, parent, minParentArea) ==
    IF j >= i THEN parent
    ELSE LET p == infos[j]
         IN  IF /\ (minParentArea = -1 \/ p.area < minParentArea)
                /\ isPointInPolygon(infos[i].points[1], p.points)
             THEN FindParent(infos, i, j + 1, j, p.area)
             ELSE FindParent(infos, i, j + 1, parent, minParentArea)

\* mutant: every loop with a parent is a hole
IsHoleDepthPositive(depth) == depth > 0

\* depth % 2 !== 0
IsHoleDepth(depth) == depth % 2 # 0

RECURSIVE BuildHierarchy(_, _)
BuildHierarchy(infos, i) ==
    IF i > Len(infos) THEN infos
    ELSE LET parent == FindParent(infos, i, 1, 0, -1)
             depth  == IF parent # 0 THEN infos[parent].depth + 1 ELSE 0
         IN  BuildHierarchy(
                 [infos EXCEPT ![i].parent = parent, ![i].depth = depth,
                               ![i].isHole = IsHoleDepth(depth)],
                 i + 1)

(***************************************************************************)
(* lines 233-254: winding and shapes.  A shape is [points, holes, info];   *)
(* a hole is [points, info]; info is the index of the ContourInfo the ring *)
(* was built from, and ContourInfo.shape is an index into finalShapes      *)
(* (0 for null).                                                           *)
(***************************************************************************)
\* mutant: a hole is attached to its parent and also emitted as a polygon
AttachHoleAndEmit(st, i) ==
    LET obj == st.infos[i]
        pts == IF ~isClockWise(obj.points) THEN Reverse(obj.points) ELSE obj.points
        infos1 == [st.infos EXCEPT ![i].points = pts]
        shapes1 == IF obj.parent # 0 /\ st.infos[obj.parent].shape # 0
                   THEN [st.shapes EXCEPT ![st.infos[obj.parent].shape].holes =
                             Append(@, [points |-> pts, info |-> i])]
                   ELSE st.shapes
    IN  [infos |-> infos1,
         shapes |-> Append(shapes1, [points |-> pts, holes |-> <<>>, info |-> i])]

\* lines 240-245 for one hole
AttachHole(st, i) ==
    LET obj == st.infos[i]
        pts == IF ~isClockWise(obj.points) THEN Reverse(obj.points) ELSE obj.points
        infos1 == [st.infos EXCEPT ![i].points = pts]
    IN  IF obj.parent # 0 /\ st.infos[obj.parent].shape # 0
        THEN [infos |-> infos1,
              shapes |-> [st.shapes EXCEPT ![st.infos[obj.parent].shape].holes =
                              Append(@, [points |-> pts, info |-> i])]]
        ELSE [infos |-> infos1, shapes |-> st.shapes]

\* lines 247-250 for one solid
CreateShape(st, i) ==
    LET obj == st.infos[i]
        pts == IF isClockWise(obj.points) THEN Reverse(obj.points) ELSE obj.points
    IN  [infos |-> [st.infos EXCEPT ![i].points = pts, ![i].shape = Len(st.shapes) + 1],
         shapes |-> Append(st.shapes, [points |-> pts, holes |-> <<>>, info |-> i])]

\* mutant: the loop of line 237 runs from the smallest loop to the largest
RECURSIVE EmitShapesSmallestFirst(_, _)
EmitShapesSmallestFirst(st, i) ==
    IF i > Len(st.infos) THEN st
    ELSE LET k == Len(st.infos) - i + 1
         IN  IF st.infos[k].isHole
             THEN EmitShapesSmallestFirst(AttachHole(st, k), i + 1)
             ELSE EmitShapesSmallestFirst(CreateShape(st, k), i + 1)

RECURSIVE EmitShapes(_, _)
EmitShapes(st, i) ==
    IF i > Len(st.infos) THEN st
    ELSE IF st.infos[i].isHole
         THEN EmitShapes(AttachHole(st, i), i + 1)
         ELSE EmitShapes(CreateShape(st, i), i + 1)

(***************************************************************************)
(* traceContours as a whole: every intermediate value of one call          *)
(***************************************************************************)
traceContours(pixelData, res, settings) ==
    LET grid   == BuildGrid(pixelData, res, settings)
        edges  == MarchingSquares(grid, res, settings, 0)
        walks  == Stitch(edges)
        loops  == KeptLoops(walks)
        sorted == SortByArea(MakeContourInfos(loops, res, settings.simplification))
        st     == EmitShapes([infos |-> BuildHierarchy(sorted, 1), shapes |-> <<>>], 1)
    IN  [grid |-> grid, edges |-> edges, walks |-> walks, loops |-> loops,
         contourInfos |-> st.infos, finalShapes |-> st.shapes]

(***************************************************************************)
(* Meshes.  A BufferGeometry is a sequence of parts (a triangle soup built *)
(* by concatenation); the empty sequence is new THREE.BufferGeometry().    *)
(* z is stored multiplied by ZDen.                                         *)
(***************************************************************************)
ZDen == 2 * 3 * 255

EmptyGeometry == <<>>

RECURSIVE SumSeq(_)
SumSeq(s) == IF s = <<>> THEN 0 ELSE Head(s) + SumSeq(Tail(s))

VertexCount(geom) == SumSeq([k \in 1..Len(geom) |-> geom[k].vertices])

\* geom.translate(0, 0, dz)
Translate(geom, dz) ==
    [k \in 1..Len(geom) |->
        [geom[k] EXCEPT !.zmin = @ + dz * ZDen, !.zmax = @ + dz * ZDen]]

\* mergeGeometries on attribute-compatible inputs: concatenation
RECURSIVE Concat(_)
Concat(geoms) == IF geoms = <<>> THEN <<>> ELSE Head(geoms) \o Concat(Tail(geoms))

\* new THREE.ExtrudeGeometry(s, {depth, bevelEnabled: false, steps: 1}):
\* two caps of T triangles and one quad per ring vertex, non-indexed
ExtrudeGeometry(shapes, k, depth) ==
    LET s == shapes[k]
        v == Len(s.points) + SumSeq([h \in 1..Len(s.holes) |-> Len(s.holes[h].points)])
        t == IF Len(s.points) >= 3 THEN v + 2 * Len(s.holes) - 2 ELSE 0
    IN  <<[kind |-> "extrusion", shape |-> k, vertices |-> 6 * t + 6 * v,
           zmin |-> 0, zmax |-> depth * ZDen]>>

\* lines 292-295
ExtrudeAll(shapes, settings) ==
    [k \in 1..Len(shapes) |-> ExtrudeGeometry(shapes, k, settings.heightScale)]

\* new THREE.BoxGeometry(w, h, d), centred on the origin, normalized
BoxGeometry(w, h, d) ==
    <<[kind |-> "slab", width |-> w, height |-> h, vertices |-> BoxVertexCount,
       zmin |-> 0 - (d * ZDen) \div 2, zmax |-> (d * ZDen) \div 2]>>

\* mutant: the slab is moved down instead of up, its top face at z = 0
BaseSlabBelowZero(settings) ==
    LET baseGeom == BoxGeometry(WORLD_SIZE, WORLD_SIZE, settings.baseThickness)
    IN  [k \in 1..Len(baseGeom) |->
            [baseGeom[k] EXCEPT !.zmin = @ - (settings.baseThickness * ZDen) \div 2,
                                !.zmax = @ - (settings.baseThickness * ZDen) \div 2]]

\* lines 307-309; translate(0, 0, baseThickness / 2) is half a ZDen step per unit
BaseSlab(settings) ==
    LET baseGeom == BoxGeometry(WORLD_SIZE, WORLD_SIZE, settings.baseThickness)
    IN  [k \in 1..Len(baseGeom) |->
            [baseGeom[k] EXCEPT !.zmin = @ + (settings.baseThickness * ZDen) \div 2,
                                !.zmax = @ + (settings.baseThickness * ZDen) \div 2]]

\* line 305
RaisedExtrusion(merged, settings) == Translate(merged, settings.baseThickness)

\* mutant: the slab is built but the extrusion alone is returned
WithBaseNotMerged(merged, settings, mergeOk) == RaisedExtrusion(merged, settings)

\* lines 311-314: finalGeom, or merged when the merge yields nothing
WithBase(merged, settings, mergeOk) ==
    IF mergeOk THEN Concat(<<BaseSlab(settings), RaisedExtrusion(merged, settings)>>)
    ELSE RaisedExtrusion(merged, settings)

\* lines 321-333: the relief plane; z = val * heightScale + baseThickness
HeightZ(pixelData, i, settings) ==
    LET idx == i * 4
        sum == pixelData[idx + 1] + pixelData[idx + 2] + pixelData[idx + 3]
        val == IF settings.invert THEN 3 * 255 - sum ELSE sum
    IN  2 * val * settings.heightScale + settings.baseThickness * ZDen

SetMax(S) == CHOOSE m \in S : \A x \in S : x <= m

SetMin(S) == CHOOSE m \in S : \A x \in S : m <= x

Heightfield(pixelData, res, settings) ==
    LET zs == {HeightZ(pixelData, i, settings) : i \in 0..(res * res - 1)}
    IN  <<[kind |-> "plane", width |-> WORLD_SIZE, height |-> WORLD_SIZE,
           vertices |-> 6 * (res - 1) * (res - 1),
           zmin |-> SetMin(zs), zmax |-> SetMax(zs)]>>

\* lines 284-318 once traceContours has returned; merge1Ok / merge2Ok say
\* whether the two mergeGeometries calls return a geometry
BuildFromShapes(shapes, settings, merge1Ok, merge2Ok) ==
    IF Len(shapes) = 0 THEN EmptyGeometry
    ELSE IF ~merge1Ok THEN EmptyGeometry
    ELSE LET merged == Concat(ExtrudeAll(shapes, settings))
         IN  IF settings.enableBase THEN WithBase(merged, settings, merge2Ok)
             ELSE merged

createSolidGeometry(pixelData, res, settings, merge1Ok, merge2Ok) ==
    IF settings.flatTop
    THEN BuildFromShapes(traceContours(pixelData, res, settings).finalShapes,
                         settings, merge1Ok, merge2Ok)
    ELSE Heightfield(pixelData, res, settings)

(***************************************************************************)
(* Bounds and inputs of the createSolidGeometry specification              *)
(***************************************************************************)
\* mask images have at most MaxFg foreground pixels (settings.invert swaps
\* the roles of foreground and background)
MaxFg == 3

\* nested square rings: up to MaxRings boundaries
MaxRings == 3

MaskResolutions == {3, 4}

White == <<255, 255, 255, 255>>

Black == <<0, 0, 0, 255>>

Gray  == <<100, 100, 100, 255>>

Clear == <<255, 255, 255, 0>>

\* the flat RGBA buffer of a res x res image: fg on the cells of mask
Paint(r, mask, fg, bg) ==
    [b \in 1..(r * r * 4) |->
        LET cell == (b - 1) \div 4
            ch   == ((b - 1) % 4) + 1
        IN  IF cell \in mask THEN fg[ch] ELSE bg[ch]]

\* distance of cell c from the border of the r x r image
BorderDist(r, c) ==
    LET x == c % r
        y == c \div r
    IN  Min2(Min2(x, y), Min2(r - 1 - x, r - 1 - y))

\* k nested boundaries strictly inside the grid: a one-pixel background
\* border, then one-pixel square rings alternating solid / hole, the k-th
\* region filling the centre
NestedMask(r, k) ==
    {c \in 0..(r * r - 1) :
        LET d == Min2(BorderDist(r, c), k) IN d >= 1 /\ d % 2 = 1}

\* a filled disk of squared radius rr4 / 4 around the image centre
DiskMask(r, rr4) ==
    {c \in 0..(r * r - 1) :
        LET dx == 2 * (c % r) - (r - 1)
            dy == 2 * (c \div r) - (r - 1)
        IN  dx * dx + dy * dy <= rr4}

NestedRes(k) == {2 * k + 1, 2 * k + 2}

Masks(r) == {m \in SUBSET (0..(r * r - 1)) : Cardinality(m) <= MaxFg}

MaskInputs ==
    UNION {{[res |-> r, pixelData |-> Paint(r, m, White, Black)] : m \in Masks(r)} :
              r \in MaskResolutions}

NestedInputs ==
    UNION {{[res |-> r, pixelData |-> Paint(r, NestedMask(r, k), White, Black)] :
               r \in NestedRes(k)} : k \in 1..MaxRings}

DiskRes == 2 * MaxRings + 1

DiskInputs ==
    {[res |-> DiskRes, pixelData |-> Paint(DiskRes, DiskMask(DiskRes, 4 * q * q), White, Black)] :
        q \in 1..(MaxRings - 1)}

\* images of other pixel kinds, for the scalar field builder
PixelPairs == {<<Gray, Clear>>, <<White, Gray>>, <<Gray, Black>>, <<Black, Clear>>}

PaletteResolutions == {3}

PaletteInputs ==
    UNION {{[res |-> r, pixelData |-> Paint(r, m, pr[1], pr[2])] :
               m \in Masks(r), pr \in PixelPairs} : r \in PaletteResolutions}

Simplifications == {<<0, 1>>, <<3, 20>>, <<1, 1>>}

\* black-and-white images: the geometry and mesh settings vary
GeometrySettings(r) ==
    [heightScale : {10}, baseThickness : {0, 2}, resolution : {r},
     invert : BOOLEAN, maskThreshold : {50}, flatTop : BOOLEAN,
     contrast : {1}, simplification : Simplifications, enableBase : BOOLEAN]

\* other pixel kinds: the scalar field settings vary
FieldSettings(r) ==
    [heightScale : {10}, baseThickness : {2}, resolution : {r},
     invert : BOOLEAN, maskThreshold : {15, 50}, flatTop : {TRUE},
     contrast : {1, 8}, simplification : {<<3, 20>>}, enableBase : BOOLEAN]

GeometryInputs == MaskInputs \cup NestedInputs \cup DiskInputs

(***************************************************************************)
(* State                                                                   *)
(***************************************************************************)
VARIABLES
    pc,            \* position in createSolidGeometry
    pixelData,     \* argument: flat RGBA buffer
    res,           \* argument
    settings,      \* argument: MeshSettings
    grid, edges, walks, loops, contourInfos, finalShapes,  \* traceContours
    stitching,     \* the loop state of lines 141-175 while it is stepped through
    merged,        \* line 297
    mergeLog,      \* what each mergeGeometries call returned: TRUE a geometry, FALSE null
    geometry,      \* the returned BufferGeometry
    errorLogged    \* console.error of line 299

\* simplifyPath on its own
VARIABLES
    stage,           \* which calls have been made
    path,            \* points
    tolerance,       \* tolerance
    simplified,      \* simplifyPath(path, tolerance)
    resimplified,    \* simplifyPath(simplified, tolerance)
    looserTolerance, \* a tolerance >= tolerance
    looser           \* simplifyPath(path, looserTolerance)

\* App (README.md) and Viewer3D; null is the empty sequence, a value v is <<v>>
VARIABLES
    imageUrl,      \* App state: 0 for null, else the image
    resolution,    \* App state: settings.resolution
    invert,        \* App state: settings.invert
    pixelState,    \* App state pixelData: [url, res, len] of the buffer
    processingRef, \* processingRef.current
    isProcessing,  \* App state
    timer,         \* pending setTimeout(updatePixelData, 300): the closure's [url, res]
    inFlight,      \* pending processImageData(url, res)
    viewerCall     \* last createSolidGeometry call of the viewer: [len, res]

\* analyzeImageFor3D (gemini.ts)
VARIABLES
    API_KEY,       \* process.env.API_KEY || '': "" or a key
    settled,       \* the returned promise: "call", "awaiting", "resolved"
    response,      \* outcome of generateContent: <<>> before it settles
    result,        \* what the promise resolved with
    analysisError  \* console.error of line 64

solidVars == <<pc, pixelData, res, settings, grid, edges, walks, loops, stitching,
               contourInfos, finalShapes, merged, mergeLog, geometry, errorLogged>>

simplifyVars == <<stage, path, tolerance, simplified, resimplified, looserTolerance, looser>>

appVars == <<imageUrl, resolution, invert, pixelState, processingRef, isProcessing,
             timer, inFlight, viewerCall>>

geminiVars == <<API_KEY, settled, response, result, analysisError>>

vars == <<solidVars, simplifyVars, appVars, geminiVars>>

traceVars == <<grid, edges, walks, loops, contourInfos, finalShapes>>

\* the parts of the state a specification does not use
SolidIdle ==
    /\ pc = "idle" /\ pixelData = <<>> /\ res = 0 /\ settings = <<>>
    /\ grid = <<>> /\ edges = <<>> /\ walks = <<>> /\ loops = <<>>
    /\ contourInfos = <<>> /\ finalShapes = <<>> /\ stitching = <<>>
    /\ merged = <<>> /\ mergeLog = <<>> /\ geometry = <<>> /\ errorLogged = FALSE

SimplifyIdle ==
    /\ stage = "idle" /\ path = <<>> /\ tolerance = <<0, 1>>
    /\ simplified = <<>> /\ resimplified = <<>>
    /\ looserTolerance = <<0, 1>> /\ looser = <<>>

AppIdle ==
    /\ imageUrl = 0 /\ resolution = 0 /\ invert = FALSE /\ pixelState = <<>>
    /\ processingRef = FALSE /\ isProcessing = FALSE
    /\ timer = <<>> /\ inFlight = <<>> /\ viewerCall = <<>>

GeminiIdle ==
    /\ API_KEY = "" /\ settled = "idle" /\ response = <<>>
    /\ result = <<>> /\ analysisError = FALSE

Init ==
    /\ pc = "call"
    /\ \/ \E inp \in GeometryInputs :
             /\ pixelData = inp.pixelData
             /\ res = inp.res
             /\ settings \in GeometrySettings(inp.res)
       \/ \E inp \in PaletteInputs :
             /\ pixelData = inp.pixelData
             /\ res = inp.res
             /\ settings \in FieldSettings(inp.res)
    /\ grid = <<>> /\ edges = <<>> /\ walks = <<>> /\ loops = <<>>
    /\ contourInfos = <<>> /\ finalShapes = <<>>
    /\ stitching = <<>>
    /\ merged = <<>>
    /\ mergeLog = <<>>
    /\ geometry = <<>>
    /\ errorLogged = FALSE
    /\ SimplifyIdle
    /\ AppIdle
    /\ GeminiIdle

\* line 283
TraceContours ==
    /\ pc = "call"
    /\ settings.flatTop
    /\ LET t == traceContours(pixelData, res, settings)
       IN  /\ grid' = t.grid
           /\ edges' = t.edges
           /\ walks' = t.walks
           /\ loops' = t.loops
           /\ contourInfos' = t.contourInfos
           /\ finalShapes' = t.finalShapes
    /\ pc' = "traced"
    /\ UNCHANGED <<simplifyVars, appVars, geminiVars>>
    /\ UNCHANGED <<pixelData, res, settings, stitching, merged, mergeLog, geometry, errorLogged>>

\* lines 321-333
ReturnHeightfield ==
    /\ pc = "call"
    /\ ~settings.flatTop
    /\ geometry' = Heightfield(pixelData, res, settings)
    /\ pc' = "returned"
    /\ UNCHANGED <<simplifyVars, appVars, geminiVars>>
    /\ UNCHANGED <<pixelData, res, settings, stitching, traceVars, merged, mergeLog, errorLogged>>

\* line 284
ReturnEmpty ==
    /\ pc = "traced"
    /\ Len(finalShapes) = 0
    /\ geometry' = EmptyGeometry
    /\ pc' = "returned"
    /\ UNCHANGED <<simplifyVars, appVars, geminiVars>>
    /\ UNCHANGED <<pixelData, res, settings, stitching, traceVars, merged, mergeLog, errorLogged>>

\* lines 286-301
MergeExtrusions ==
    /\ pc = "traced"
    /\ Len(finalShapes) # 0
    /\ \E ok \in BOOLEAN :
          /\ mergeLog' = Append(mergeLog, ok)
          /\ IF ok
             THEN /\ merged' = Concat(ExtrudeAll(finalShapes, settings))
                  /\ pc' = "merged"
                  /\ UNCHANGED <<geometry, errorLogged>>
             ELSE /\ errorLogged' = TRUE
                  /\ geometry' = EmptyGeometry
                  /\ pc' = "returned"
                  /\ UNCHANGED merged
    /\ UNCHANGED <<simplifyVars, appVars, geminiVars>>
    /\ UNCHANGED <<pixelData, res, settings, stitching, traceVars>>

\* lines 304-315
AddBase ==
    /\ pc = "merged"
    /\ settings.enableBase
    /\ merged' = RaisedExtrusion(merged, settings)
    /\ \E ok \in BOOLEAN :
          /\ mergeLog' = Append(mergeLog, ok)
          /\ geometry' = WithBase(merged, settings, ok)
    /\ pc' = "returned"
    /\ UNCHANGED <<simplifyVars, appVars, geminiVars>>
    /\ UNCHANGED <<pixelData, res, settings, stitching, traceVars, errorLogged>>

\* line 318
ReturnExtrusion ==
    /\ pc = "merged"
    /\ ~settings.enableBase
    /\ geometry' = merged
    /\ pc' = "returned"
    /\ UNCHANGED <<simplifyVars, appVars, geminiVars>>
    /\ UNCHANGED <<pixelData, res, settings, stitching, traceVars, merged, mergeLog, errorLogged>>

Next ==
    \/ TraceContours
    \/ ReturnHeightfield
    \/ ReturnEmpty
    \/ MergeExtrusions
    \/ AddBase
    \/ ReturnExtrusion

Spec == Init /\ [][Next]_vars

(***************************************************************************)
(* Properties of traceContours and createSolidGeometry                     *)
(***************************************************************************)
\* traceContours has returned in this call
Traced == pc \in {"traced", "merged", "returned"} /\ settings.flatTop

InfoIdx == 1..Len(contourInfos)

ShapeIdx == 1..Len(finalShapes)

\* the <<shape, hole>> positions whose ring was built from ContourInfo i
HoleSlots(i) ==
    UNION {{<<k, h>> : h \in {h \in 1..Len(finalShapes[k].holes) :
                                  finalShapes[k].holes[h].info = i}} : k \in ShapeIdx}

ShapesOf(i) == {k \in ShapeIdx : finalShapes[k].info = i}

\* C1: the polygons returned are exactly the even-depth ContourInfos, one
\* polygon each; an odd-depth ContourInfo is no polygon and sits in at most
\* one hole list, once; nothing else is in a hole list.
C1_PolygonsAreEvenDepth ==
    Traced =>
        /\ Len(finalShapes) = Cardinality({i \in InfoIdx : contourInfos[i].depth % 2 = 0})
        /\ \A i \in InfoIdx :
              IF contourInfos[i].depth % 2 = 0
              THEN Cardinality(ShapesOf(i)) = 1 /\ HoleSlots(i) = {}
              ELSE ShapesOf(i) = {} /\ Cardinality(HoleSlots(i)) <= 1
        /\ \A k \in ShapeIdx :
              \A h \in 1..Len(finalShapes[k].holes) :
                  /\ finalShapes[k].holes[h].info \in InfoIdx
                  /\ contourInfos[finalShapes[k].holes[h].info].depth % 2 = 1

\* C1 witness: two polygons and an attached hole
C1_Witness ==
    /\ Traced
    /\ Len(finalShapes) >= 2
    /\ \E i \in InfoIdx : contourInfos[i].depth = 1 /\ Cardinality(HoleSlots(i)) = 1

\* C2: every polygon's outer boundary is counter-clockwise (positive signed
\* area) and every hole ring is clockwise (negative signed area).
C2_WindingInvariant ==
    Traced =>
        \A k \in ShapeIdx :
            /\ Shoelace(finalShapes[k].points) > 0
            /\ \A h \in 1..Len(finalShapes[k].holes) :
                  Shoelace(finalShapes[k].holes[h].points) < 0

\* no ring is wound the wrong way round: what breaks C2 are rings of area 0
NoRingWoundBackwards ==
    Traced =>
        \A k \in ShapeIdx :
            /\ Shoelace(finalShapes[k].points) >= 0
            /\ \A h \in 1..Len(finalShapes[k].holes) :
                  Shoelace(finalShapes[k].holes[h].points) <= 0

\* the call's image is k nested square boundaries strictly inside the grid
NestedCase(k) ==
    /\ settings.flatTop
    /\ ~settings.invert
    /\ res \in NestedRes(k)
    /\ pixelData = Paint(res, NestedMask(res, k), White, Black)

\* the call's image is a filled disk strictly inside the grid
DiskCase ==
    /\ settings.flatTop
    /\ ~settings.invert
    /\ res = DiskRes
    /\ \E q \in 1..(MaxRings - 1) :
          pixelData = Paint(DiskRes, DiskMask(DiskRes, 4 * q * q), White, Black)

\* k loops, depths 0..k-1 outermost first, each the child of the one before;
\* even depths are polygons of their own, each odd depth is the one hole of
\* the polygon of the loop before it
NestedResult(k) ==
    /\ Len(walks) = k
    /\ Len(loops) = k
    /\ Len(contourInfos) = k
    /\ Len(finalShapes) = (k + 1) \div 2
    /\ \A i \in 1..k :
          /\ contourInfos[i].depth = i - 1
          /\ contourInfos[i].parent = i - 1
          /\ i > 1 => contourInfos[i].area < contourInfos[i - 1].area
          /\ contourInfos[i].isHole = (i % 2 = 0)
          /\ IF i % 2 = 1
             THEN /\ contourInfos[i].shape = (i + 1) \div 2
                  /\ finalShapes[(i + 1) \div 2].info = i
                  /\ Len(finalShapes[(i + 1) \div 2].holes) = (IF i < k THEN 1 ELSE 0)
             ELSE /\ contourInfos[i].shape = 0
                  /\ HoleSlots(i) = {<<i \div 2, 1>>}

\* C4: k properly nested boundaries strictly inside the grid (a filled disk,
\* a square with a square hole, solid-hole-solid rings) give exactly k loops
\* of depths 0..k-1 from the outermost in; every even depth is a polygon of
\* its own and every odd depth is a hole of the polygon of the loop around it.
C4_NestedBoundaries ==
    Traced =>
        /\ \A k \in 1..MaxRings : NestedCase(k) => NestedResult(k)
        /\ DiskCase => NestedResult(1)


\* C4 witness: three nested rings traced to two polygons, the first with a hole
C4_Witness ==
    /\ Traced
    /\ NestedCase(3)
    /\ Len(finalShapes) = 2
    /\ Len(finalShapes[1].holes) = 1
    /\ contourInfos[3].depth = 2

\* every field sample binarizes the same way
Uniform ==
    \A i, j \in 0..(res * res - 1) :
        AboveThreshold(grid, i, settings) = AboveThreshold(grid, j, settings)

\* C5: a field whose samples all binarize the same way gives no segment, no
\* loop and no polygon, and createSolidGeometry in vector mode returns the
\* empty mesh without merging anything or logging an error.
C5_UniformFieldEmptyMesh ==
    (Traced /\ Uniform) =>
        /\ edges = <<>>
        /\ walks = <<>>
        /\ loops = <<>>
        /\ contourInfos = <<>>
        /\ finalShapes = <<>>
        /\ pc \in {"traced", "returned"}
        /\ mergeLog = <<>>
        /\ ~errorLogged
        /\ pc = "returned" => geometry = EmptyGeometry

\* C5 witness: an entirely above-threshold field, base enabled, has returned
C5_Witness ==
    /\ pc = "returned"
    /\ Traced
    /\ \A i \in 0..(res * res - 1) : AboveThreshold(grid, i, settings) = 1
    /\ settings.enableBase
    /\ settings.baseThickness > 0
    /\ geometry = EmptyGeometry

\* the same call with enableBase flipped, both merges succeeding
OtherBaseSetting ==
    createSolidGeometry(pixelData, res, [settings EXCEPT !.enableBase = ~@], TRUE, TRUE)

FewerWithoutBase ==
    IF settings.enableBase
    THEN VertexCount(OtherBaseSetting) < VertexCount(geometry)
    ELSE VertexCount(geometry) < VertexCount(OtherBaseSetting)

MergesSucceeded == \A k \in 1..Len(mergeLog) : mergeLog[k]

\* C6 as claimed: for the same pixel data and otherwise identical settings the
\* mesh without base has strictly fewer vertices than the mesh with base.
C6_AlwaysFewerWithoutBase == pc = "returned" => FewerWithoutBase

\* C6 amended: in vector mode, when traceContours returns at least one polygon
\* and the merges succeed, the mesh without base has strictly fewer vertices
\* than the mesh with base: the 36 vertices of the slab.
C6_FewerWithoutBaseInVectorMode ==
    (pc = "returned" /\ settings.flatTop /\ Len(finalShapes) > 0 /\ MergesSucceeded) =>
        /\ FewerWithoutBase
        /\ Abs(VertexCount(geometry) - VertexCount(OtherBaseSetting)) = BoxVertexCount

\* C6 witness: a mesh with base was returned
C6_Witness ==
    /\ pc = "returned"
    /\ settings.flatTop
    /\ settings.enableBase
    /\ Len(finalShapes) > 0
    /\ mergeLog = <<TRUE, TRUE>>
    /\ VertexCount(geometry) > BoxVertexCount

Slabs == {k \in 1..Len(geometry) : geometry[k].kind = "slab"}

Extrusions == {k \in 1..Len(geometry) : geometry[k].kind = "extrusion"}

\* C10 as claimed: the slab's top face sits at z = 0.
C10_SlabTopAtZero ==
    pc = "returned" => \A k \in Slabs : geometry[k].zmax = 0

\* C10 amended: with the base enabled and polygons present, the mesh is one
\* slab of WORLD_SIZE x WORLD_SIZE whose bottom face sits at z = 0 and whose
\* top face sits at z = baseThickness, and the extrusions are raised by
\* baseThickness: they stand on the slab, from baseThickness to
\* baseThickness + heightScale.
C10_SlabUnderExtrusion ==
    (pc = "returned" /\ settings.flatTop /\ settings.enableBase
        /\ Len(finalShapes) > 0 /\ mergeLog = <<TRUE, TRUE>>) =>
        /\ Cardinality(Slabs) = 1
        /\ Cardinality(Extrusions) = Len(finalShapes)
        /\ \A k \in Slabs :
              /\ geometry[k].width = WORLD_SIZE
              /\ geometry[k].height = WORLD_SIZE
              /\ geometry[k].zmin = 0
              /\ geometry[k].zmax = settings.baseThickness * ZDen
        /\ \A k \in Extrusions :
              /\ geometry[k].zmin = settings.baseThickness * ZDen
              /\ geometry[k].zmax = (settings.baseThickness + settings.heightScale) * ZDen

\* C10 witness: a mesh with a slab of positive thickness was returned
C10_Witness ==
    /\ pc = "returned"
    /\ settings.enableBase
    /\ settings.baseThickness > 0
    /\ Slabs # {}
    /\ Extrusions # {}

\* the geometry built last before the merge that returned null: the raised
\* extrusion when the slab merge fails, the last extruded polygon when the
\* merge of the extrusions fails
LastBuiltGeometry ==
    IF mergeLog[1] THEN merged
    ELSE ExtrudeAll(finalShapes, settings)[Len(finalShapes)]

\* C11: whenever a merge step yields no result, createSolidGeometry returns
\* the last successfully built geometry (the extrusion without slab when the
\* merge of slab and extrusion fails).
C11_MergeFailureReturnsLastBuilt ==
    (pc = "returned" /\ settings.flatTop /\ ~MergesSucceeded) =>
        geometry = LastBuiltGeometry

\* the pixels of the call's image whose alpha is 0
TransparentPixels == {i \in 0..(res * res - 1) : pixelData[i * 4 + 4] = 0}

\* C13 as claimed: a pixel with alpha 0 is background, whatever its colour,
\* the invert flag, the contrast and the threshold: it binarizes to 0.
C13_TransparentIsBackground ==
    Traced => \A i \in TransparentPixels : AboveThreshold(grid, i, settings) = 0

\* C13 amended: without invert a pixel with alpha 0 has field value 0 and
\* binarizes to 0 for every colour, contrast and threshold; with invert its
\* field value is 1 and it binarizes to 1.
C13_TransparentIsBackgroundUnlessInverted ==
    Traced =>
        \A i \in TransparentPixels :
            /\ grid[i + 1] = (IF settings.invert THEN ValDen ELSE 0)
            /\ AboveThreshold(grid, i, settings) = (IF settings.invert THEN 1 ELSE 0)

\* C13 witness: a transparent white pixel next to an opaque one, traced
\* without invert under a contrast stretch
C13_Witness ==
    /\ Traced
    /\ ~settings.invert
    /\ settings.contrast > 1
    /\ \E i \in TransparentPixels : pixelData[i * 4 + 1] = 255
    /\ \E j \in 0..(res * res - 1) : j \notin TransparentPixels

Cells == (0..(res - 2)) \X (0..(res - 2))

\* the four sides of cell <<x, y>>: midpoint (doubled coordinates) and the
\* grid indices of the two corners
CellSides(x, y) ==
    {[mid |-> <<2 * x + 1, 2 * y>>,     a |-> y * res + x,           b |-> y * res + x + 1],
     [mid |-> <<2 * x + 2, 2 * y + 1>>, a |-> y * res + x + 1,       b |-> (y + 1) * res + x + 1],
     [mid |-> <<2 * x + 1, 2 * y + 2>>, a |-> (y + 1) * res + x + 1, b |-> (y + 1) * res + x],
     [mid |-> <<2 * x, 2 * y + 1>>,     a |-> (y + 1) * res + x,     b |-> y * res + x]}

\* midpoints of the sides of the cell whose two corners binarize differently
CrossedMidpoints(x, y) ==
    {sd.mid : sd \in {sd \in CellSides(x, y) :
        AboveThreshold(grid, sd.a, settings) # AboveThreshold(grid, sd.b, settings)}}

\* how many segment ends of segs lie on point p
EndsAt(segs, p) ==
    Cardinality({k \in 1..Len(segs) : <<segs[k][1], segs[k][2]>> = p})
        + Cardinality({k \in 1..Len(segs) : <<segs[k][3], segs[k][4]>> = p})

\* the segments pushed for cell <<x, y>>
SegmentsOfCell(x, y) == CellEdges(CaseIdx(grid, res, x, y, settings), x, y)

\* midpoints of the sides shared by two cells
SharedMidpoints ==
    {<<2 * x, 2 * y + 1>> : x \in 1..(res - 2), y \in 0..(res - 2)}
        \cup {<<2 * x + 1, 2 * y>> : x \in 0..(res - 2), y \in 1..(res - 2)}

\* C14: in every cell the ends of the emitted segments are exactly the
\* midpoints of the sides whose corners binarize differently, each the end of
\* exactly one segment of the cell (0, 1 or 2 segments, 2 for codes 5 and
\* 10); every midpoint shared by two cells is touched by 0 or 2 segments.
C14_CellTable ==
    Traced =>
        /\ \A c \in Cells :
              LET segs    == SegmentsOfCell(c[1], c[2])
                  crossed == CrossedMidpoints(c[1], c[2])
              IN  /\ \A p \in crossed : EndsAt(segs, p) = 1
                  /\ \A k \in 1..Len(segs) :
                        /\ <<segs[k][1], segs[k][2]>> \in crossed
                        /\ <<segs[k][3], segs[k][4]>> \in crossed
                  /\ 2 * Len(segs) = Cardinality(crossed)
                  /\ (Len(segs) = 2) <=> (CaseIdx(grid, res, c[1], c[2], settings) \in {5, 10})
        /\ \A p \in SharedMidpoints : EndsAt(edges, p) \in {0, 2}

\* C14 witness: a saddle cell next to a cell with one segment, meeting in a
\* shared midpoint
C14_Witness ==
    /\ Traced
    /\ \E c \in Cells : CaseIdx(grid, res, c[1], c[2], settings) \in {5, 10}
    /\ \E c \in Cells : Len(SegmentsOfCell(c[1], c[2])) = 1
    /\ \E p \in SharedMidpoints : EndsAt(edges, p) = 2

\* the ContourInfos as line 206 leaves them: simplified, in world
\* coordinates, sorted by area, before hierarchy and winding
SortedInfos == SortByArea(MakeContourInfos(loops, res, settings.simplification))

\* p lies on the closed straight segment from a to b
OnSegment(p, a, b) ==
    /\ (b[1] - a[1]) * (p[2] - a[2]) = (b[2] - a[2]) * (p[1] - a[1])
    /\ Min2(a[1], b[1]) <= p[1] /\ p[1] <= Max2(a[1], b[1])
    /\ Min2(a[2], b[2]) <= p[2] /\ p[2] <= Max2(a[2], b[2])

\* p lies on the boundary of the polygon
OnBoundary(p, polygon) ==
    \E k \in 1..Len(polygon) : OnSegment(p, polygon[k], polygon[(k % Len(polygon)) + 1])

\* loop a's polygon contains the first point of loop b
ContainsFirstPoint(a, b) ==
    isPointInPolygon(SortedInfos[b].points[1], SortedInfos[a].points)

Containers(i) == {j \in 1..(i - 1) : ContainsFirstPoint(j, i)}

\* C19: the parent of each loop is a loop of the smallest area among the
\* earlier loops containing its first point, none if there is none; its
\* depth is the parent's depth + 1, or 0 without parent; it is a hole iff
\* its depth is odd.
C19_HierarchyClassification ==
    Traced =>
        /\ Len(contourInfos) = Len(SortedInfos)
        /\ \A i \in InfoIdx :
              LET obj == contourInfos[i]
              IN  /\ obj.area = SortedInfos[i].area
                  /\ IF Containers(i) = {}
                     THEN obj.parent = 0 /\ obj.depth = 0
                     ELSE /\ obj.parent \in Containers(i)
                          /\ \A j \in Containers(i) :
                                contourInfos[obj.parent].area <= contourInfos[j].area
                          /\ obj.depth = contourInfos[obj.parent].depth + 1
                  /\ obj.isHole <=> (obj.depth % 2 = 1)

\* C19 witness: a loop with two containers whose parent is the smaller one,
\* at depth 2, no hole
C19_Witness ==
    /\ Traced
    /\ \E i \in InfoIdx :
          /\ Cardinality(Containers(i)) = 2
          /\ contourInfos[i].parent = 2
          /\ contourInfos[i].depth = 2
          /\ ~contourInfos[i].isHole

\* C21: no hole is dropped: every odd-depth loop has a parent of even depth
\* that precedes it in the sorted order and whose polygon exists, and the
\* loop is in the hole list of that polygon, once, and in no other.
C21_NoHoleDropped ==
    Traced =>
        \A i \in InfoIdx :
            contourInfos[i].depth % 2 = 1 =>
                LET parent == contourInfos[i].parent
                IN  /\ contourInfos[i].isHole
                    /\ parent \in 1..(i - 1)
                    /\ contourInfos[parent].depth % 2 = 0
                    /\ contourInfos[parent].shape \in ShapeIdx
                    /\ finalShapes[contourInfos[parent].shape].info = parent
                    /\ Cardinality(HoleSlots(i)) = 1
                    /\ \A sl \in HoleSlots(i) : sl[1] = contourInfos[parent].shape

\* C21 witness: a depth-1 loop with a loop inside it, attached as the one
\* hole of its parent's polygon
C21_Witness ==
    /\ Traced
    /\ \E i, j \in InfoIdx :
          /\ contourInfos[i].depth = 1
          /\ contourInfos[j].parent = i
          /\ HoleSlots(i) = {<<contourInfos[contourInfos[i].parent].shape, 1>>}

\* C20: the tolerance traceContours hands to simplifyPath is exactly
\* settings.simplification, 0 included, and the loops are simplified with it.
C20_ConfiguredToleranceUsed ==
    Traced =>
        /\ EffectiveTolerance(settings.simplification) = settings.simplification
        /\ \A k \in 1..Len(loops) :
              MakeContourInfo(loops[k], res, settings.simplification).points =
                  [n \in 1..Len(simplifyPath(loops[k], <<2 * settings.simplification[1],
                                                         settings.simplification[2]>>)) |->
                      ToWorld(simplifyPath(loops[k], <<2 * settings.simplification[1],
                                                       settings.simplification[2]>>)[n], res)]

(***************************************************************************)
(* Loop stitching on its own, stepped through: lines 127-175 on any list   *)
(* of segments between half-integer points.                                *)
(***************************************************************************)
MaxSegs == 3

\* end points of the segments, in doubled coordinates
StitchPoints == (0..2) \X (0..1)

Segments == {<<p[1], p[2], q[1], q[2]>> : p, q \in StitchPoints} \
                {<<p[1], p[2], p[1], p[2]>> : p \in StitchPoints}

SegmentLists == UNION {[1..n -> Segments] : n \in 0..MaxSegs}

InitStitch ==
    /\ pc = "segments"
    /\ edges \in SegmentLists
    /\ stitching = [i |-> 1, usedEdges |-> [k \in 1..Len(edges) |-> FALSE],
                    walking |-> FALSE, currentLoop |-> <<>>, segs |-> <<>>,
                    next |-> <<0, 0>>]
    /\ walks = <<>> /\ loops = <<>>
    /\ pixelData = <<>> /\ res = 0 /\ settings = <<>> /\ grid = <<>>
    /\ contourInfos = <<>> /\ finalShapes = <<>>
    /\ merged = <<>> /\ mergeLog = <<>> /\ geometry = <<>> /\ errorLogged = FALSE
    /\ SimplifyIdle
    /\ AppIdle
    /\ GeminiIdle

\* mutant: line 146 is left out, the edge a walk starts at stays unused
StartNotMarked(usedEdges, i) == usedEdges

\* line 146: usedEdges[i] = 1
StartMarked(usedEdges, i) == [usedEdges EXCEPT ![i] = TRUE]

\* lines 157-159: the unused candidates at the current end point
FreeCandidates ==
    SelectSeq(PointMapGet(edges, getCoordKey(stitching.next[1], stitching.next[2]), 1),
              LAMBDA idx : ~stitching.usedEdges[idx])

StitchUnchanged ==
    /\ UNCHANGED <<pixelData, res, settings, grid, edges, contourInfos, finalShapes,
                   merged, mergeLog, geometry, errorLogged>>
    /\ UNCHANGED <<simplifyVars, appVars, geminiVars>>

\* line 143: if (usedEdges[i]) continue
SkipUsedEdge ==
    /\ pc = "segments"
    /\ ~stitching.walking
    /\ stitching.i <= Len(edges)
    /\ stitching.usedEdges[stitching.i]
    /\ stitching' = [stitching EXCEPT !.i = @ + 1]
    /\ UNCHANGED <<pc, walks, loops>>
    /\ StitchUnchanged

\* lines 145-153
StartWalk ==
    /\ pc = "segments"
    /\ ~stitching.walking
    /\ stitching.i <= Len(edges)
    /\ ~stitching.usedEdges[stitching.i]
    /\ LET edge == edges[stitching.i]
       IN  stitching' = [stitching EXCEPT
               !.walking = TRUE,
               !.usedEdges = StartMarked(@, stitching.i),
               !.currentLoop = <<<<edge[1], edge[2]>>>>,
               !.segs = <<stitching.i>>,
               !.next = <<edge[3], edge[4]>>]
    /\ UNCHANGED <<pc, walks, loops>>
    /\ StitchUnchanged

\* lines 154-172: one turn of the while loop that finds a candidate
WalkStep ==
    /\ pc = "segments"
    /\ stitching.walking
    /\ FreeCandidates # <<>>
    /\ LET idx == Head(FreeCandidates)
           e   == edges[idx]
           near == NearEnd(e, stitching.next)
       IN  stitching' = [stitching EXCEPT
               !.usedEdges = [@ EXCEPT ![idx] = TRUE],
               !.currentLoop = Append(@, IF near THEN <<e[1], e[2]>> ELSE <<e[3], e[4]>>),
               !.segs = Append(@, idx),
               !.next = IF near THEN <<e[3], e[4]>> ELSE <<e[1], e[2]>>]
    /\ UNCHANGED <<pc, walks, loops>>
    /\ StitchUnchanged

\* lines 173-175: no candidate is found, the walk ends
EndWalk ==
    /\ pc = "segments"
    /\ stitching.walking
    /\ FreeCandidates = <<>>
    /\ walks' = Append(walks, [points |-> stitching.currentLoop,
                               segs |-> stitching.segs, last |-> stitching.next])
    /\ loops' = IF Len(stitching.currentLoop) > 2
                THEN Append(loops, stitching.currentLoop) ELSE loops
    /\ stitching' = [stitching EXCEPT !.walking = FALSE, !.i = @ + 1]
    /\ UNCHANGED pc
    /\ StitchUnchanged

\* line 142: i reaches edges.length
EndStitch ==
    /\ pc = "segments"
    /\ ~stitching.walking
    /\ stitching.i > Len(edges)
    /\ pc' = "stitched"
    /\ UNCHANGED <<stitching, walks, loops>>
    /\ StitchUnchanged

NextStitch ==
    \/ SkipUsedEdge
    \/ StartWalk
    \/ WalkStep
    \/ EndWalk
    \/ EndStitch

\* the loop runs on: no step that can be taken is put off forever
SpecStitch == InitStitch /\ [][NextStitch]_vars /\ WF_vars(NextStitch)

\* how often edge k was consumed, over all walks
TimesUsed(k) ==
    SumSeq([w \in 1..Len(walks) |->
        Cardinality({n \in 1..Len(walks[w].segs) : walks[w].segs[n] = k})])

\* C15: stitching terminates for every list of segments, and when it ends
\* every segment has been consumed by exactly one walk, once, and is marked
\* used.
C15_StitchingTerminates ==
    /\ <>(pc = "stitched")
    /\ [](pc = "stitched" =>
            /\ \A k \in 1..Len(edges) : TimesUsed(k) = 1 /\ stitching.usedEdges[k]
            /\ walks = Stitch(edges)
            /\ loops = KeptLoops(walks))

\* C15 witness: three segments stitched into two walks
C15_Witness ==
    /\ pc = "stitched"
    /\ Len(edges) = 3
    /\ Len(walks) = 2
    /\ \E w \in 1..2 : Len(walks[w].segs) = 2

\* the end points of the segments a walk consumed
EndpointsOf(w) ==
    UNION {{<<edges[k][1], edges[k][2]>>, <<edges[k][3], edges[k][4]>>} :
              k \in {w.segs[n] : n \in 1..Len(w.segs)}}

PointsOf(w) == {w.points[n] : n \in 1..Len(w.points)}

\* the walk came back to the point it started from
Closed(w) == w.last = w.points[1]

\* C16: a stitched loop holds every end point of every segment its walk
\* consumed; an open chain of n segments has n + 1 points (a closed loop n,
\* the first point not repeated) and is emitted iff that is at least 3.
C16_WalkHoldsEveryEndpoint ==
    pc = "stitched" =>
        \A w \in 1..Len(walks) :
            /\ EndpointsOf(walks[w]) \subseteq PointsOf(walks[w])
            /\ Len(walks[w].points) =
                  (IF Closed(walks[w]) THEN Len(walks[w].segs) ELSE Len(walks[w].segs) + 1)
            /\ (\E l \in 1..Len(loops) : loops[l] = walks[w].points)
                  <=> (Closed(walks[w]) /\ Len(walks[w].segs) >= 3)
                          \/ (~Closed(walks[w]) /\ Len(walks[w].segs) + 1 >= 3)

\* what the walks do hold: one point per consumed segment, the end at which
\* the segment was entered; the end point the walk stopped at is not pushed
OnePointPerSegment ==
    pc = "stitched" =>
        \A w \in 1..Len(walks) :
            /\ Len(walks[w].points) = Len(walks[w].segs)
            /\ EndpointsOf(walks[w]) \subseteq PointsOf(walks[w]) \cup {walks[w].last}

(***************************************************************************)
(* simplifyPath on arbitrary point sequences                               *)
(***************************************************************************)
\* paths have at most MaxLen points
MaxLen == 5

\* with x in 0..MaxCoord and y in 0..1
MaxCoord == 2

PointGrid == (0..MaxCoord) \X (0..1)

Paths == UNION {[1..n -> PointGrid] : n \in 0..MaxLen}

Tolerances == {<<0, 1>>, <<1, 2>>, <<1, 1>>}

\* t1 <= t2
TolLE(t1, t2) == t1[1] * t2[2] <= t2[1] * t1[2]

InitSimplify ==
    /\ stage = "input"
    /\ path \in Paths
    /\ tolerance \in Tolerances
    /\ simplified = <<>>
    /\ resimplified = <<>>
    /\ looserTolerance = <<0, 1>>
    /\ looser = <<>>
    /\ SolidIdle
    /\ AppIdle
    /\ GeminiIdle

Simplify ==
    /\ stage = "input"
    /\ simplified' = simplifyPath(path, tolerance)
    /\ stage' = "once"
    /\ UNCHANGED <<path, tolerance, resimplified, looserTolerance, looser>>
    /\ UNCHANGED <<solidVars, appVars, geminiVars>>

SimplifyAgain ==
    /\ stage = "once"
    /\ resimplified' = simplifyPath(simplified, tolerance)
    /\ stage' = "twice"
    /\ UNCHANGED <<path, tolerance, simplified, looserTolerance, looser>>
    /\ UNCHANGED <<solidVars, appVars, geminiVars>>

SimplifyLooser ==
    /\ stage = "once"
    /\ \E t2 \in Tolerances :
          /\ TolLE(tolerance, t2)
          /\ looserTolerance' = t2
          /\ looser' = simplifyPath(path, t2)
    /\ stage' = "looser"
    /\ UNCHANGED <<path, tolerance, simplified, resimplified>>
    /\ UNCHANGED <<solidVars, appVars, geminiVars>>

NextSimplify == Simplify \/ SimplifyAgain \/ SimplifyLooser

SpecSimplify == InitSimplify /\ [][NextSimplify]_vars

\* C7: simplifying an already simplified path with the same tolerance
\* returns it unchanged, point for point.
C7_SimplifyIdempotent == stage = "twice" => resimplified = simplified

\* C7 witness: a path that lost points and kept an interior point was
\* simplified twice
C7_Witness ==
    /\ stage = "twice"
    /\ Len(simplified) < Len(path)
    /\ Len(simplified) >= 3

\* C8: a larger tolerance never gives more points.
C8_SimplifyMonotone == stage = "looser" => Len(looser) <= Len(simplified)

\* C8 witness: a strictly larger tolerance removed more points
C8_Witness ==
    /\ stage = "looser"
    /\ ~TolLE(looserTolerance, tolerance)
    /\ Len(looser) < Len(simplified)
    /\ Len(looser) >= 3

\* the k-th smallest element of a set of indices
RECURSIVE KthOf(_, _)
KthOf(S, k) == IF k = 1 THEN SetMin(S) ELSE KthOf(S \ {SetMin(S)}, k - 1)

\* out keeps the points of inp at the indices kept, in order, with the first
\* and the last index among them, and every index dropped between two
\* neighbouring kept ones holds a point on the segment between their points
KeepsAllButCollinear(inp, out) ==
    \E kept \in SUBSET (1..Len(inp)) :
        /\ Cardinality(kept) = Len(out)
        /\ \A k \in 1..Len(out) : out[k] = inp[KthOf(kept, k)]
        /\ Len(inp) > 0 => 1 \in kept /\ Len(inp) \in kept
        /\ \A j \in (1..Len(inp)) \ kept :
              \E a, b \in kept :
                  /\ a < j /\ j < b
                  /\ \A c \in kept : ~(a < c /\ c < b)
                  /\ OnSegment(inp[j], inp[a], inp[b])

\* C9: with tolerance 0 the result is a subsequence of the path that keeps its
\* first and last point, and every point removed lies exactly on the segment
\* between the two retained points around it.
C9_ZeroToleranceNearIdentity ==
    (stage # "input" /\ tolerance = <<0, 1>>) => KeepsAllButCollinear(path, simplified)

\* C9 witness: tolerance 0 removed a point and kept an interior one
C9_Witness ==
    /\ stage = "once"
    /\ tolerance = <<0, 1>>
    /\ Len(simplified) < Len(path)
    /\ Len(simplified) >= 3

-----------------------------------------------------------------------------
\* App (README.md) with its Viewer3D: uploads, settings changes, the debounced
\* pixel acquisition and the viewer's calls of createSolidGeometry

MaxUrls == 2

DEFAULT_RESOLUTION == 512

\* positions of the resolution slider (min 128, max 1024, step 64)
AppResolutions == {128, DEFAULT_RESOLUTION, 1024}

\* getImageData(0, 0, resolution, resolution).data
BufferLength(r) == r * r * 4

\* Viewer3D's mesh effect, run with the given props; the viewer is mounted
\* only while an image is set, and does nothing without pixel data
ViewerEffect(url, pixels, r) ==
    IF url = 0 \/ pixels = <<>>
    THEN viewerCall
    ELSE <<[len |-> pixels[1].len, res |-> r]>>

\* the effect on updatePixelData: clearTimeout, then setTimeout(updatePixelData, 300)
DebounceEffect(url, r) == <<[url |-> url, res |-> r]>>

InitApp ==
    /\ imageUrl = 0
    /\ resolution = DEFAULT_RESOLUTION
    /\ invert = FALSE
    /\ pixelState = <<>>
    /\ processingRef = FALSE
    /\ isProcessing = FALSE
    /\ timer = DebounceEffect(0, DEFAULT_RESOLUTION)
    /\ inFlight = <<>>
    /\ viewerCall = <<>>
    /\ SolidIdle
    /\ SimplifyIdle
    /\ GeminiIdle

\* reader.onload of handleFileUpload: setImageUrl(url)
HandleFileUpload(u) ==
    /\ u # imageUrl
    /\ imageUrl' = u
    /\ timer' = DebounceEffect(u, resolution)
    /\ viewerCall' = IF imageUrl = 0 THEN ViewerEffect(u, pixelState, resolution)
                     ELSE viewerCall
    /\ UNCHANGED <<resolution, invert, pixelState, processingRef, isProcessing, inFlight>>
    /\ UNCHANGED <<solidVars, simplifyVars, geminiVars>>

\* the resolution slider's onChange
SetResolution(r) ==
    /\ r # resolution
    /\ resolution' = r
    /\ timer' = DebounceEffect(imageUrl, r)
    /\ viewerCall' = ViewerEffect(imageUrl, pixelState, r)
    /\ UNCHANGED <<imageUrl, invert, pixelState, processingRef, isProcessing, inFlight>>
    /\ UNCHANGED <<solidVars, simplifyVars, geminiVars>>

\* the invert button's onClick: a new settings object, same resolution
ToggleInvert ==
    /\ invert' = ~invert
    /\ viewerCall' = ViewerEffect(imageUrl, pixelState, resolution)
    /\ UNCHANGED <<imageUrl, resolution, pixelState, processingRef, isProcessing,
                   timer, inFlight>>
    /\ UNCHANGED <<solidVars, simplifyVars, geminiVars>>

\* the debounce timer fires: updatePixelData up to its await
TimeoutFires ==
    /\ timer # <<>>
    /\ timer' = <<>>
    /\ IF timer[1].url = 0 \/ processingRef
       THEN UNCHANGED <<processingRef, isProcessing, inFlight>>
       ELSE /\ processingRef' = TRUE
            /\ isProcessing' = TRUE
            /\ inFlight' = <<timer[1]>>
    /\ UNCHANGED <<imageUrl, resolution, invert, pixelState, viewerCall>>
    /\ UNCHANGED <<solidVars, simplifyVars, geminiVars>>

\* processImageData resolves with the image's pixels; updatePixelData resumes
ImageLoads ==
    /\ inFlight # <<>>
    /\ LET data == <<[url |-> inFlight[1].url, res |-> inFlight[1].res,
                      len |-> BufferLength(inFlight[1].res)]>>
       IN  /\ pixelState' = data
           /\ viewerCall' = ViewerEffect(imageUrl, data, resolution)
    /\ inFlight' = <<>>
    /\ isProcessing' = FALSE
    /\ processingRef' = FALSE
    /\ UNCHANGED <<imageUrl, resolution, invert, timer>>
    /\ UNCHANGED <<solidVars, simplifyVars, geminiVars>>

\* processImageData resolves with null (img.onerror, or no 2d context)
ImageFails ==
    /\ inFlight # <<>>
    /\ pixelState' = <<>>
    /\ inFlight' = <<>>
    /\ isProcessing' = FALSE
    /\ processingRef' = FALSE
    /\ UNCHANGED <<imageUrl, resolution, invert, timer, viewerCall>>
    /\ UNCHANGED <<solidVars, simplifyVars, geminiVars>>

NextApp ==
    \/ \E u \in 1..MaxUrls : HandleFileUpload(u)
    \/ \E r \in AppResolutions : SetResolution(r)
    \/ ToggleInvert
    \/ TimeoutFires
    \/ ImageLoads
    \/ ImageFails

SpecApp == InitApp /\ [][NextApp]_vars

\* C3: whenever the viewer calls createSolidGeometry, the pixel buffer it
\* passes has length resolution^2 * 4 for the resolution passed in the same call
C3_BufferMatchesResolution ==
    viewerCall # <<>> => viewerCall[1].len = BufferLength(viewerCall[1].res)

\* the App when every image load completes with pixels: a pending timeout
\* fires and a pending load completes
NextAppLoading ==
    \/ \E u \in 1..MaxUrls : HandleFileUpload(u)
    \/ \E r \in AppResolutions : SetResolution(r)
    \/ ToggleInvert
    \/ TimeoutFires
    \/ ImageLoads

SpecAppLoading ==
    InitApp /\ [][NextAppLoading]_vars /\ WF_vars(TimeoutFires) /\ WF_vars(ImageLoads)

\* the current pixel data were acquired from image u at resolution r
PixelDataOf(u, r) ==
    pixelState # <<>> /\ pixelState[1].url = u /\ pixelState[1].res = r

\* C17: once the image and the resolution stop changing and the image loads
\* complete, the pixel data of the latest image at the latest resolution
\* become, and stay, the current pixel data.
C17_LatestInputsAcquired ==
    \A u \in 1..MaxUrls : \A r \in AppResolutions :
        <>[](imageUrl = u /\ resolution = r) => <>[]PixelDataOf(u, r)

-----------------------------------------------------------------------------
\* analyzeImageFor3D (gemini.ts): the advisory service and its fallbacks

\* response.text is a sequence of up to MaxTokens JSON tokens; a member
\* token stands for the member of that name with some value
MaxTokens == 5

Members == {"summary", "suggestedSettings", "useCase"}

Tokens == {"{", "}", "null"} \cup Members

Texts == UNION {[1..n -> Tokens] : n \in 0..MaxTokens}

\* JSON.parse(text): null, or an object of the members between the braces;
\* anything else throws a SyntaxError
JSONParse(text) ==
    IF text = <<"null">>
    THEN [ok |-> TRUE, value |-> [origin |-> "service", kind |-> "null", keys |-> {}]]
    ELSE IF /\ Len(text) >= 2
            /\ text[1] = "{"
            /\ text[Len(text)] = "}"
            /\ \A k \in 2..(Len(text) - 1) : text[k] \in Members
         THEN [ok |-> TRUE,
               value |-> [origin |-> "service", kind |-> "object",
                          keys |-> {text[k] : k \in 2..(Len(text) - 1)}]]
         ELSE [ok |-> FALSE, value |-> <<>>]

\* lines 9-13
DefaultWithoutKey == [origin |-> "default", kind |-> "object", keys |-> Members]

\* lines 65-69
DefaultOnError == [origin |-> "default", kind |-> "object", keys |-> Members]

\* what generateContent can settle with: a rejection, a response without
\* text, or a response with a text
Responses ==
    {[kind |-> "rejected", text |-> <<>>], [kind |-> "fulfilled", text |-> <<>>]}
        \cup {[kind |-> "fulfilled", text |-> <<t>>] : t \in Texts}

InitGemini ==
    /\ API_KEY \in {"", "key"}
    /\ settled = "call"
    /\ response = <<>>
    /\ result = <<>>
    /\ analysisError = FALSE
    /\ SolidIdle
    /\ SimplifyIdle
    /\ AppIdle

\* lines 8-14
ReturnWithoutKey ==
    /\ settled = "call"
    /\ API_KEY = ""
    /\ result' = <<DefaultWithoutKey>>
    /\ settled' = "resolved"
    /\ UNCHANGED <<API_KEY, response, analysisError>>
    /\ UNCHANGED <<solidVars, simplifyVars, appVars>>

\* lines 16-60: the request is sent
GenerateContent ==
    /\ settled = "call"
    /\ API_KEY # ""
    /\ settled' = "awaiting"
    /\ UNCHANGED <<API_KEY, response, result, analysisError>>
    /\ UNCHANGED <<solidVars, simplifyVars, appVars>>

\* lines 62-70: generateContent settles and the function resumes
Resume(r) ==
    /\ settled = "awaiting"
    /\ response' = <<r>>
    /\ LET parsed == IF r.kind = "fulfilled" /\ r.text # <<>>
                     THEN JSONParse(r.text[1])
                     ELSE [ok |-> FALSE, value |-> <<>>]
       IN  IF parsed.ok
           THEN /\ result' = <<parsed.value>>
                /\ UNCHANGED analysisError
           ELSE /\ result' = <<DefaultOnError>>
                /\ analysisError' = TRUE
    /\ settled' = "resolved"
    /\ UNCHANGED API_KEY
    /\ UNCHANGED <<solidVars, simplifyVars, appVars>>

NextGemini ==
    \/ ReturnWithoutKey
    \/ GenerateContent
    \/ \E r \in Responses : Resume(r)

SpecGemini == InitGemini /\ [][NextGemini]_vars

\* the payload has the shape of an AnalysisResult
WellFormed(v) == v.kind = "object" /\ Members \subseteq v.keys

\* the advisory service failed: no credential, a failed request, or a
\* response that is no AnalysisResult
ServiceFailed ==
    \/ API_KEY = ""
    \/ /\ response # <<>>
       /\ \/ response[1].kind = "rejected"
          \/ response[1].text = <<>>
          \/ ~JSONParse(response[1].text[1]).ok
          \/ ~WellFormed(JSONParse(response[1].text[1]).value)

\* C12: on any failure of the advisory service analyzeImageFor3D resolves
\* with a hard-coded default result containing summary, suggestedSettings and
\* useCase; it never resolves with the malformed payload.
C12_FailureYieldsDefault ==
    (settled = "resolved" /\ ServiceFailed) =>
        /\ result[1].origin = "default"
        /\ WellFormed(result[1])


=============================================================================
